---- MODULE Spec2Model ----
(***************************************************************************)
(* Model of the stock dashboard: the StockChart component (normalisation   *)
(* of the raw price series into the chart datasets, the rendered view),    *)
(* and the Home page that fetches the series and mounts the chart.         *)
(***************************************************************************)
EXTENDS Integers, Sequences, FiniteSets, TLC

\* ------------------------------------------------------------------ bounds
MaxDay == 2        \* calendar days 1..MaxDay appear as point dates and window ends
MaxSeries == 2     \* series in the data prop, symbols in the symbols prop
MaxPoints == 2     \* raw points in the data prop, all series together
MaxMounts == 2     \* the counters of mounts and of created instances stop here
MaxRequests == 2   \* price fetches issued by Home
MaxSymbols == 1    \* symbols of Home while its fetches are followed
MaxZoomDay == 3    \* calendar days 1..MaxZoomDay are window ends while gestures are followed
MaxQuotes == 2     \* quotes in the upstream answers to one fetchStockData, all symbols together
MaxTickers == 2    \* tickers StockForm shows, symbols of Home while the form is followed
MaxDetails == 2    \* requests of /ticker_list.json without a response yet

\* ------------------------------------------------------- JavaScript values
\* A value of type number | null: a finite number is the reduced fraction n/d.
Null == [k |-> "null", n |-> 0, d |-> 1]
NaN == [k |-> "NaN", n |-> 0, d |-> 1]
PosInf == [k |-> "Infinity", n |-> 0, d |-> 1]
NegInf == [k |-> "-Infinity", n |-> 0, d |-> 1]

Abs(a) == IF a < 0 THEN 0 - a ELSE a

RECURSIVE Gcd(_, _)
Gcd(a, b) == IF b = 0 THEN a ELSE Gcd(b, a % b)

\* the finite number a/b (b # 0), in lowest terms with a positive denominator
Rat(a, b) ==
  LET g == Gcd(Abs(a), Abs(b))
      s == IF b < 0 THEN 0 - 1 ELSE 1
  IN  [k |-> "num", n |-> (s * a) \div g, d |-> (s * b) \div g]

Num(a) == Rat(a, 1)

IsFinite(v) == v.k = "num"

\* x - y of two finite numbers
Sub(x, y) == Rat(x.n * y.d - y.n * x.d, x.d * y.d)

\* x / y of two finite numbers, as IEEE division: 0/0 is NaN, a/0 is +-Infinity
Div(x, y) ==
  IF y.n = 0
  THEN IF x.n = 0 THEN NaN ELSE IF x.n > 0 THEN PosInf ELSE NegInf
  ELSE Rat(x.n * y.d, x.d * y.n)

\* x * c for an integer c > 0: NaN and the infinities are kept
Mul(x, c) == IF IsFinite(x) THEN Rat(x.n * c, x.d) ELSE x

\* new Date(date).getTime() of the calendar day 'YYYY-MM-DD' number date: UTC
\* midnight of that day, in milliseconds
getTime(date) == date * 86400000

\* ------------------------------------------------------------- input sets
Days == 1..MaxDay
\* sample closing prices: zero and two distinct non-zero prices
Prices == {0, 1, 2}
Closes == {Null} \cup {Num(p) : p \in Prices}
Stock == "ABC"
ExchangeRate == "USDJPY=X"
SymbolNames == {Stock, ExchangeRate}
Undefined == "undefined"

VARIABLES
  data,           \* StockChart prop data: sequence of series of [date, close]
  symbols,        \* Home state symbols, StockChart prop symbols
  startDate,      \* Home state startDate, StockChart prop startDate
  endDate,        \* Home state endDate, StockChart prop endDate
  chartData,      \* the memoized datasets of the chart that takes data and symbols
  chartDataDict,  \* the memoized datasets of the chart that takes a symbol-keyed object
  view,           \* what StockChart returns: "message" or "canvas"; "none": not mounted
  stockData,      \* Home state stockData: one series per symbol of the applied response
  showTooltip,    \* Home state showTooltip
  isDarkMode,     \* StockChart state isDarkMode
  prefersDark,    \* matches of the media query (prefers-color-scheme: dark)
  innerHeight,    \* window.innerHeight
  chartHeight,    \* StockChart state chartHeight, in px
  resizeListeners,\* registered 'resize' listeners of the window
  mediaListeners, \* registered 'change' listeners of the media query
  created,        \* chart instances created since StockChart was mounted
  mounts,         \* mounts of StockChart so far
  updated,        \* StockChart was re-rendered since it was mounted
  redrawMode,     \* mode of the last update() asked of the chart instance; "never": none
  xMin,           \* chart instance: lower end of the displayed range of scale x, in ms
  xMax,           \* chart instance: upper end of the displayed range of scale x, in ms
  timers,         \* Home: the pending debounce timeouts, the newest last, each with
                  \* the symbols and dates of the render that set it
  isLoading,      \* Home state isLoading
  error,          \* Home state error is not null
  inflight,       \* Home: the /api/stockData requests without a response yet
  issued,         \* number of requests issued so far; the id of the newest
  appliedId,      \* id of the request whose response is in stockData; 0: none
  answers,        \* fetchStockData: the upstream's answer to the request of each symbol
  fetched,        \* fetchStockData: the value its promise resolved to, once it did
  selectedTickers,\* StockForm state selectedTickers: the tickers it shows, in order
  detailRequests  \* StockForm: the fetchTickerDetails calls without a response yet, in
                  \* the order of their calls, each with the symbols of its render

normVars == <<data, chartData, chartDataDict>>
propVars == <<symbols, startDate, endDate, view>>
chartVars == <<stockData, showTooltip, isDarkMode, prefersDark, innerHeight, chartHeight,
               resizeListeners, mediaListeners, created, mounts, updated, redrawMode,
               xMin, xMax>>
lifeVars == <<showTooltip, isDarkMode, prefersDark, innerHeight, chartHeight,
              resizeListeners, mediaListeners, created, mounts, updated, redrawMode,
              xMin, xMax>>
pageVars == <<timers, isLoading, error, inflight, issued, appliedId>>
fetcherVars == <<answers, fetched>>
formVars == <<selectedTickers, detailRequests>>
vars == <<normVars, propVars, chartVars, pageVars, fetcherVars, formVars>>

\* -------------------------------------------------- StockChart: chartData
\* a window test that forgets the upper bound
inWindowNoEnd(point, start, end) == getTime(point.date) >= getTime(start)

inWindow(point, start, end) ==
  LET pointTimestamp == getTime(point.date)
  IN  pointTimestamp >= getTime(start) /\ pointTimestamp <= getTime(end)

validData(series, start, end) ==
  SelectSeq(series, LAMBDA point : point.close # Null /\ inWindow(point, start, end))

symbolAt(syms, index) == IF index <= Len(syms) THEN syms[index] ELSE Undefined

\* a baseline taken from the last in-window point instead of the first
baseValueLast(valid, isExchangeRate) ==
  IF isExchangeRate THEN Num(1)
  ELSE IF Len(valid) = 0 THEN Num(0)
  ELSE valid[Len(valid)].close

baseValue(valid, isExchangeRate) ==
  IF isExchangeRate THEN Num(1)
  ELSE IF Len(valid) = 0 THEN Num(0)
  ELSE valid[1].close

\* a plotted value that percent-transforms the exchange rate as well
pointYPercent(close, base, isExchangeRate) ==
  IF close = Null THEN Null
  ELSE Mul(Div(Sub(close, base), base), 100)

pointY(close, base, isExchangeRate) ==
  IF close = Null THEN Null
  ELSE IF isExchangeRate THEN close
  ELSE Mul(Div(Sub(close, base), base), 100)

chartPoints(valid, base, isExchangeRate) ==
  SelectSeq(
    [i \in 1..Len(valid) |->
      [x |-> getTime(valid[i].date),
       y |-> pointY(valid[i].close, base, isExchangeRate),
       originalY |-> valid[i].close]],
    LAMBDA point : point.y # Null)

dataset(series, index, syms, start, end) ==
  LET symbol == symbolAt(syms, index)
      isExchangeRate == symbol = ExchangeRate
      valid == validData(series, start, end)
  IN  [label |-> symbol,
       data |-> chartPoints(valid, baseValue(valid, isExchangeRate), isExchangeRate),
       yAxisID |-> IF isExchangeRate THEN "y-exchange" ELSE "y-percent"]

computeChartData(d, syms, start, end) ==
  IF Len(d) = 0 \/ Len(syms) = 0 THEN <<>>
  ELSE [index \in 1..Len(d) |-> dataset(d[index], index, syms, start, end)]

\* ----------------------------- StockChart taking a symbol-keyed data object
windowData(series, start, end) ==
  SelectSeq(series, LAMBDA point : inWindow(point, start, end))

percentChange(currentValue, base) ==
  IF base # Null /\ currentValue # Null
  THEN Mul(Div(Sub(currentValue, base), base), 100)
  ELSE Null

datasetDict(symbol, series, start, end) ==
  LET valid == windowData(series, start, end)
      base == IF Len(valid) = 0 THEN Null ELSE valid[1].close
  IN  [label |-> symbol,
       data |-> [i \in 1..Len(valid) |->
                  [x |-> getTime(valid[i].date),
                   y |-> percentChange(valid[i].close, base),
                   originalY |-> valid[i].close]],
       yAxisID |-> "y"]

\* data and symbols name an object { symbol: series } when the keys are distinct
IsDict(d, syms) ==
  /\ Len(d) = Len(syms)
  /\ \A i, j \in 1..Len(syms) : syms[i] = syms[j] => i = j

computeChartDataDict(d, syms, start, end) ==
  IF IsDict(d, syms)
  THEN [i \in 1..Len(d) |-> datasetDict(syms[i], d[i], start, end)]
  ELSE <<>>

\* ------------------------------------------------------ StockChart: render
render(d, syms) == IF Len(d) = 0 \/ Len(syms) = 0 THEN "message" ELSE "canvas"

\* ------------------------------------------------- the props and a render
RECURSIVE CountPoints(_)
CountPoints(d) == IF Len(d) = 0 THEN 0 ELSE Len(Head(d)) + CountPoints(Tail(d))

Rendered(d, syms, start, end) ==
  /\ data' = d
  /\ symbols' = syms
  /\ startDate' = start
  /\ endDate' = end
  /\ chartData' = computeChartData(d, syms, start, end)
  /\ chartDataDict' = computeChartDataDict(d, syms, start, end)
  /\ view' = render(d, syms)
  /\ UNCHANGED <<chartVars, pageVars, fetcherVars, formVars>>

\* the variables of the page and of the mounted chart, before Home is rendered
ChartIdle ==
  /\ stockData = <<>>
  /\ showTooltip = TRUE
  /\ isDarkMode = FALSE
  /\ prefersDark = FALSE
  /\ innerHeight = 800
  /\ chartHeight = 500
  /\ resizeListeners = 0
  /\ mediaListeners = 0
  /\ created = 0
  /\ mounts = 0
  /\ updated = FALSE
  /\ redrawMode = "never"
  /\ xMin = 0
  /\ xMax = 0

\* the variables of StockForm, before it is rendered
FormIdle ==
  /\ selectedTickers = <<>>
  /\ detailRequests = <<>>

\* the variables of the fetches of Home, before Home is rendered; no
\* fetchStockData is running
PageIdle ==
  /\ answers = <<>>
  /\ fetched = [returned |-> FALSE, value |-> <<>>]
  /\ timers = <<>>
  /\ isLoading = FALSE
  /\ error = FALSE
  /\ inflight = {}
  /\ issued = 0
  /\ appliedId = 0

InitNorm ==
  /\ FormIdle
  /\ ChartIdle
  /\ PageIdle
  /\ data = <<>>
  /\ symbols = <<>>
  /\ startDate \in Days
  /\ endDate \in Days
  /\ startDate <= endDate
  /\ chartData = computeChartData(data, symbols, startDate, endDate)
  /\ chartDataDict = computeChartDataDict(data, symbols, startDate, endDate)
  /\ view = render(data, symbols)

\* the parent passes a data prop with one more (empty) series
AddSeries ==
  /\ Len(data) < MaxSeries
  /\ Rendered(Append(data, <<>>), symbols, startDate, endDate)

\* the parent passes a data prop with one more point at the end of a series
AddPoint ==
  /\ CountPoints(data) < MaxPoints
  /\ \E i \in 1..Len(data), date \in Days, close \in Closes :
       /\ Len(data[i]) > 0 => data[i][Len(data[i])].date < date
       /\ Rendered([data EXCEPT ![i] = Append(@, [date |-> date, close |-> close])],
                   symbols, startDate, endDate)

\* the parent passes a symbols prop with one more symbol
AddSymbol ==
  /\ Len(symbols) < MaxSeries
  /\ \E s \in SymbolNames : Rendered(data, Append(symbols, s), startDate, endDate)

NextNorm == AddSeries \/ AddPoint \/ AddSymbol

SpecNorm == InitNorm /\ [][NextNorm]_vars

\* ------------------------------------ Home and the lifecycle of StockChart
Heights == {600, 800}
SymbolLists == UNION {[1..n -> SymbolNames] : n \in 0..MaxSeries}

\* selectedTickers.filter((_, i) => i !== index), as a symbol list
removeAt(syms, index) ==
  [i \in 1..(Len(syms) - 1) |-> IF i < index THEN syms[i] ELSE syms[i + 1]]

\* a Home that renders StockChart whatever its state is
homeShowsChartAlways(sd, syms) == TRUE

\* Home renders StockChart when stockData and symbols are both non-empty
homeShowsChart(sd, syms) == Len(sd) > 0 /\ Len(syms) > 0

\* the JSON of /api/stockData for the symbols of a request: one series per symbol
responseData(reqSymbols) == [i \in 1..Len(reqSymbols) |-> [for |-> reqSymbols[i]]]

\* updateChartHeight: 70% of the window height
heightFor(windowHeight) == (windowHeight * 7) \div 10

\* a cleanup that leaves the listener registered
keepListener(n) == n

\* removeEventListener in the cleanup of the listener effect
removeListener(n) == n - 1

\* addEventListener in the listener effect
addListener(n) == n + 1

Saturate(n) == IF n < MaxMounts THEN n + 1 ELSE n

\* options.plugins.zoom.limits.x.minRange, in ms
minRange == 86400000

\* limits that let the view shrink to nothing
zoomLimitsNoMinRange(start, end) ==
  [min |-> getTime(start), max |-> getTime(end), minRange |-> 0]

\* options.plugins.zoom.limits.x
zoomLimits(start, end) ==
  [min |-> getTime(start), max |-> getTime(end), minRange |-> minRange]

\* options.scales.x.min and max: the range the scale shows when the instance
\* takes a new options object
scalesX(start, end) == [min |-> getTime(start), max |-> getTime(end)]

Min(a, b) == IF a < b THEN a ELSE b
Max(a, b) == IF a > b THEN a ELSE b

\* the zoom plugin fits the range [min, max] a gesture asks for into the limits:
\* a zoom widens it around its centre to minRange, a pan keeps the span the scale
\* shows; a range that leaves the limits is moved back inside and cut to them
updateRange(scale, min, max, limits, zoom) ==
  LET range == IF zoom THEN Max(max - min, limits.minRange) ELSE scale.max - scale.min
      offset == (range - max + min) \div 2
      wideMin == min - offset
      wideMax == max + offset
  IN  IF wideMin < limits.min
      THEN [min |-> limits.min, max |-> Min(limits.min + range, limits.max)]
      ELSE IF wideMax > limits.max
      THEN [min |-> Max(limits.max - range, limits.min), max |-> limits.max]
      ELSE [min |-> wideMin, max |-> wideMax]

\* the update effect: chartRef.current.update('none') when the instance exists
effectUpdate(returned, mode) == IF returned = "canvas" THEN "none" ELSE mode

\* StockChart is mounted: first render, <Chart> creates its instance, the
\* listener effect registers both listeners
MountChart(sd, syms) ==
  /\ view' = render(sd, syms)
  /\ created' = IF render(sd, syms) = "canvas" THEN 1 ELSE 0
  /\ isDarkMode' = prefersDark'
  /\ chartHeight' = heightFor(innerHeight')
  /\ resizeListeners' = addListener(resizeListeners)
  /\ mediaListeners' = addListener(mediaListeners)
  /\ mounts' = Saturate(mounts)
  /\ updated' = FALSE
  /\ redrawMode' = effectUpdate(render(sd, syms), redrawMode)
  /\ xMin' = IF render(sd, syms) = "canvas" THEN scalesX(startDate', endDate').min ELSE 0
  /\ xMax' = IF render(sd, syms) = "canvas" THEN scalesX(startDate', endDate').max ELSE 0

\* StockChart is unmounted: <Chart> destroys its instance, the cleanup of the
\* listener effect runs, the component state is dropped
UnmountChart ==
  /\ view' = "none"
  /\ created' = 0
  /\ isDarkMode' = FALSE
  /\ chartHeight' = 500
  /\ resizeListeners' = removeListener(resizeListeners)
  /\ mediaListeners' = removeListener(mediaListeners)
  /\ updated' = FALSE
  /\ redrawMode' = "never"
  /\ xMin' = 0
  /\ xMax' = 0
  /\ UNCHANGED mounts

\* the options memo is computed again: one of its dependencies changed
optionsChanged ==
  <<isDarkMode, startDate, endDate, showTooltip>>' #
    <<isDarkMode, startDate, endDate, showTooltip>>

\* the mounted StockChart is rendered again: <Chart> stays as long as the
\* canvas is returned, is unmounted with the message and mounted with the canvas
UpdateChart(sd, syms) ==
  /\ view' = render(sd, syms)
  /\ created' = IF render(sd, syms) = "canvas" /\ view # "canvas"
                THEN Saturate(created) ELSE created
  /\ updated' = TRUE
  /\ UNCHANGED <<isDarkMode, chartHeight, resizeListeners, mediaListeners, mounts>>
  /\ redrawMode' = effectUpdate(render(sd, syms), redrawMode)
  /\ LET shown == IF view # "canvas" \/ optionsChanged
                   THEN scalesX(startDate', endDate')
                   ELSE [min |-> xMin, max |-> xMax]
     IN  /\ xMin' = IF render(sd, syms) = "canvas" THEN shown.min ELSE 0
         /\ xMax' = IF render(sd, syms) = "canvas" THEN shown.max ELSE 0

\* React commits a render of Home with the new state
Commit(sd, syms, start, end, tip) ==
  /\ stockData' = sd
  /\ symbols' = syms
  /\ startDate' = start
  /\ endDate' = end
  /\ showTooltip' = tip
  /\ UNCHANGED <<normVars, fetcherVars, formVars, pageVars, prefersDark, innerHeight>>
  /\ IF homeShowsChart(sd, syms)
     THEN IF view = "none" THEN MountChart(sd, syms) ELSE UpdateChart(sd, syms)
     ELSE IF view = "none"
          THEN UNCHANGED <<view, created, isDarkMode, chartHeight, resizeListeners,
                           mediaListeners, mounts, updated, redrawMode, xMin, xMax>>
          ELSE UnmountChart

InitChart ==
  /\ FormIdle
  /\ PageIdle
  /\ data = <<>>
  /\ chartData = <<>>
  /\ chartDataDict = <<>>
  /\ symbols = <<ExchangeRate>>
  /\ startDate = 1
  /\ endDate = MaxDay
  /\ view = "none"
  /\ stockData = <<>>
  /\ showTooltip = TRUE
  /\ isDarkMode = FALSE
  /\ prefersDark \in BOOLEAN
  /\ innerHeight \in Heights
  /\ chartHeight = 500
  /\ resizeListeners = 0
  /\ mediaListeners = 0
  /\ created = 0
  /\ mounts = 0
  /\ updated = FALSE
  /\ redrawMode = "never"
  /\ xMin = 0
  /\ xMax = 0

\* StockForm.handleTickerSelect: onSymbolsChange([...symbols, ticker])
SelectTicker ==
  /\ Len(symbols) < MaxSeries
  /\ \E ticker \in SymbolNames :
       Commit(stockData, Append(symbols, ticker), startDate, endDate, showTooltip)

\* StockForm.handleRemoveSymbol(index): onSymbolsChange without that ticker,
\* the form showing the tickers of symbols (SpecForm follows what it shows)
RemoveTicker ==
  \E index \in 1..Len(symbols) :
    Commit(stockData, removeAt(symbols, index), startDate, endDate, showTooltip)

\* StockForm.handleStartDateChange / handleEndDateChange
ChangeDates ==
  \E day \in Days :
    \/ day # startDate /\ Commit(stockData, symbols, day, endDate, showTooltip)
    \/ day # endDate /\ Commit(stockData, symbols, startDate, day, showTooltip)

\* Home.fetchData: setStockData(data) with the response of some earlier request
ApplyResponse ==
  \E reqSymbols \in SymbolLists :
    /\ Len(reqSymbols) > 0
    /\ Commit(responseData(reqSymbols), symbols, startDate, endDate, showTooltip)

\* the Show Tooltip checkbox: setShowTooltip(e.target.checked)
ToggleTooltip ==
  \E checked \in BOOLEAN :
    checked # showTooltip /\ Commit(stockData, symbols, startDate, endDate, checked)

\* the system colour scheme changes: handleChange runs if it is registered
ThemeChange ==
  /\ prefersDark' = ~prefersDark
  /\ IF mediaListeners > 0
     THEN /\ isDarkMode' = prefersDark'
          /\ updated' = TRUE
          /\ redrawMode' = effectUpdate(view, redrawMode)
          /\ xMin' = IF view = "canvas" THEN scalesX(startDate, endDate).min ELSE xMin
          /\ xMax' = IF view = "canvas" THEN scalesX(startDate, endDate).max ELSE xMax
     ELSE UNCHANGED <<isDarkMode, updated, redrawMode, xMin, xMax>>
  /\ UNCHANGED <<normVars, fetcherVars, formVars, propVars, pageVars, stockData, showTooltip, innerHeight,
                 chartHeight, resizeListeners, mediaListeners, created, mounts>>

\* the window is resized: updateChartHeight runs if it is registered
Resize ==
  /\ \E h \in Heights : h # innerHeight /\ innerHeight' = h
  /\ IF resizeListeners > 0
     THEN chartHeight' = heightFor(innerHeight') /\ updated' = TRUE
     ELSE UNCHANGED <<chartHeight, updated>>
  /\ UNCHANGED <<normVars, fetcherVars, formVars, propVars, pageVars, stockData, showTooltip, isDarkMode,
                 prefersDark, resizeListeners, mediaListeners, created, mounts, redrawMode,
                 xMin, xMax>>

\* StockChartRef.updateChart, called by a holder of the ref of the mounted
\* component: chartRef.current.update() when the instance exists
updateChart ==
  /\ view = "canvas"
  /\ redrawMode' = "default"
  /\ UNCHANGED <<normVars, fetcherVars, formVars, propVars, pageVars, stockData, showTooltip, isDarkMode,
                 prefersDark, innerHeight, chartHeight, resizeListeners, mediaListeners,
                 created, mounts, updated, xMin, xMax>>

NextChart ==
  \/ SelectTicker
  \/ RemoveTicker
  \/ ChangeDates
  \/ ApplyResponse
  \/ ToggleTooltip
  \/ ThemeChange
  \/ Resize
  \/ updateChart

SpecChart == InitChart /\ [][NextChart]_vars

\* ----------------------------------------- Home: debounce and price fetches
\* (the rendering of StockChart that follows a change of Home is SpecChart's)
\* the values the user gives a date input: 0 is the empty string of an unset
\* input, day MaxDay is today
PageDates == {0, MaxDay}

\* the timeout callback and the fetchData it calls see the state of one render
closure(syms, start, end) == [symbols |-> syms, startDate |-> start, endDate |-> end]

\* a cleanup that leaves the timeout pending
leaveTimeout(pending) == pending

\* the cleanup of the debounce effect: clearTimeout(debounceTimeout), the timeout
\* of the latest run of the effect
clearTimeout(pending) ==
  IF Len(pending) = 0 THEN pending ELSE SubSeq(pending, 1, Len(pending) - 1)

\* the debounce effect runs again after a change of symbols or dates: its cleanup
\* clears the pending timeout and a new one is set
InputsChanged(syms, start, end) ==
  /\ symbols' = syms
  /\ startDate' = start
  /\ endDate' = end
  /\ timers' = Append(clearTimeout(timers), closure(syms, start, end))
  /\ UNCHANGED <<normVars, fetcherVars, formVars, view, stockData, lifeVars, isLoading, error, inflight,
                 issued, appliedId>>

InitPage ==
  /\ FormIdle
  /\ ChartIdle
  /\ data = <<>>
  /\ chartData = <<>>
  /\ chartDataDict = <<>>
  /\ view = "none"
  /\ symbols = <<ExchangeRate>>
  /\ startDate = 1
  /\ endDate = MaxDay
  /\ timers = <<closure(symbols, startDate, endDate)>>
  /\ isLoading = FALSE
  /\ error = FALSE
  /\ inflight = {}
  /\ issued = 0
  /\ appliedId = 0
  /\ answers = <<>>
  /\ fetched = [returned |-> FALSE, value |-> <<>>]

handleTickerSelect ==
  /\ Len(symbols) < MaxSymbols
  /\ \E ticker \in SymbolNames : InputsChanged(Append(symbols, ticker), startDate, endDate)

\* StockForm.handleRemoveSymbol(index), the form showing the tickers of symbols
handleRemoveSymbol ==
  \E index \in 1..Len(symbols) : InputsChanged(removeAt(symbols, index), startDate, endDate)

handleDateChange ==
  \E day \in PageDates :
    \/ day # startDate /\ InputsChanged(symbols, day, endDate)
    \/ day # endDate /\ InputsChanged(symbols, startDate, day)

\* fetchData of the render c, up to its await: the request leaves with the
\* inputs of that render
fetchData(c) ==
  /\ issued < MaxRequests
  /\ isLoading' = TRUE
  /\ error' = FALSE
  /\ issued' = issued + 1
  /\ inflight' = inflight \cup {[id |-> issued + 1, symbols |-> c.symbols,
                                 startDate |-> c.startDate, endDate |-> c.endDate]}

\* a debounce timeout fires
TimerFires ==
  \E k \in 1..Len(timers) :
    /\ timers' = [i \in 1..(Len(timers) - 1) |-> IF i < k THEN timers[i] ELSE timers[i + 1]]
    /\ IF timers[k].startDate # 0 /\ timers[k].endDate # 0 /\ Len(timers[k].symbols) > 0
       THEN fetchData(timers[k])
       ELSE UNCHANGED <<isLoading, error, issued, inflight>>
    /\ UNCHANGED <<normVars, fetcherVars, formVars, propVars, stockData, lifeVars, appliedId>>

\* fetchData after its await, response ok: setStockData(data), setIsLoading(false)
FetchOk ==
  \E r \in inflight :
    /\ inflight' = inflight \ {r}
    /\ stockData' = responseData(r.symbols)
    /\ appliedId' = r.id
    /\ isLoading' = FALSE
    /\ UNCHANGED <<normVars, fetcherVars, formVars, propVars, lifeVars, timers, error, issued>>

\* fetchData after its await, response not ok or no response: setError, setIsLoading(false)
FetchFails ==
  \E r \in inflight :
    /\ inflight' = inflight \ {r}
    /\ error' = TRUE
    /\ isLoading' = FALSE
    /\ UNCHANGED <<normVars, fetcherVars, formVars, propVars, lifeVars, stockData, timers, issued, appliedId>>

NextPage ==
  \/ handleTickerSelect
  \/ handleRemoveSymbol
  \/ handleDateChange
  \/ TimerFires
  \/ FetchOk
  \/ FetchFails

SpecPage == InitPage /\ [][NextPage]_vars

\* ------------------------------------- StockChart: pan and zoom gestures
ZoomDays == 1..MaxZoomDay

\* gestures move the ends of the range by half days
GestureStep == minRange \div 2
Moves == {m * GestureStep : m \in {0 - 2, 0 - 1, 1, 2}}

\* Home after its first response was applied: StockChart is mounted with a canvas
InitZoom ==
  /\ FormIdle
  /\ PageIdle
  /\ data = <<>>
  /\ chartData = <<>>
  /\ chartDataDict = <<>>
  /\ symbols = <<ExchangeRate>>
  /\ stockData = responseData(symbols)
  /\ startDate = 1
  /\ endDate = MaxZoomDay
  /\ view = "canvas"
  /\ showTooltip = TRUE
  /\ prefersDark \in BOOLEAN
  /\ isDarkMode = prefersDark
  /\ innerHeight = 800
  /\ chartHeight = heightFor(innerHeight)
  /\ resizeListeners = 1
  /\ mediaListeners = 1
  /\ created = 1
  /\ mounts = 1
  /\ updated = FALSE
  /\ redrawMode = "none"
  /\ xMin = scalesX(startDate, endDate).min
  /\ xMax = scalesX(startDate, endDate).max

\* the instance shows the range the plugin made of the gesture's range
Gesture(min, max, zoom) ==
  LET shown == updateRange([min |-> xMin, max |-> xMax], min, max,
                           zoomLimits(startDate, endDate), zoom)
  IN  /\ view = "canvas"
      /\ xMin' = shown.min
      /\ xMax' = shown.max
      /\ UNCHANGED <<normVars, fetcherVars, formVars, propVars, pageVars, stockData, showTooltip, isDarkMode,
                     prefersDark, innerHeight, chartHeight, resizeListeners,
                     mediaListeners, created, mounts, updated, redrawMode>>

\* options.plugins.zoom.pan: a drag along x
Pan == \E delta \in Moves : Gesture(xMin + delta, xMax + delta, FALSE)

\* options.plugins.zoom.zoom: the wheel or a pinch, along x
Zoom ==
  \E lower, upper \in Moves \cup {0} :
    /\ <<lower, upper>> # <<0, 0>>
    /\ xMin + lower <= xMax - upper
    /\ Gesture(xMin + lower, xMax - upper, TRUE)

\* the date inputs give another window, start <= end
ChangeWindow ==
  \E day \in ZoomDays :
    \/ /\ day # startDate
       /\ day <= endDate
       /\ Commit(stockData, symbols, day, endDate, showTooltip)
    \/ /\ day # endDate
       /\ startDate <= day
       /\ Commit(stockData, symbols, startDate, day, showTooltip)

NextZoom ==
  \/ ChangeWindow
  \/ ApplyResponse
  \/ ToggleTooltip
  \/ ThemeChange
  \/ Pan
  \/ Zoom

SpecZoom == InitZoom /\ [][NextZoom]_vars

\* ------------------------------------------- the fetcher: fetchStockData
\* the upstream's timestamps, in seconds: midnight and noon UTC of each day
Timestamps == {day * 86400 + offset : day \in Days, offset \in {0, 43200}}

\* the upstream's prices: none, zero, and one with five decimals
UpstreamPrices == {Null, Num(0), Rat(16, 100000)}

Quotes == [timestamp : Timestamps, price : UpstreamPrices]

\* the answers the upstream can give to one request: up to n quotes, by time
QuoteSeqs(n) ==
  UNION {{q \in [1..len -> Quotes] :
            \A k \in 1..(len - 1) : q[k].timestamp < q[k + 1].timestamp} :
         len \in 0..n}

RECURSIVE CountQuotes(_)
CountQuotes(a) ==
  IF Len(a) = 0 THEN 0 ELSE Len(Head(a).quotes) + CountQuotes(Tail(a))

\* new Date(timestamp * 1000).toISOString().split('T')[0]: the UTC day
isoDate(timestamp) == timestamp \div 86400

\* Number(price.toFixed(4)) of a price >= 0: the nearest multiple of 0.0001
toFixed4(price) == Rat((2 * price.n * 10000 + price.d) \div (2 * price.d), 10000)

\* a fetchSingleStockData without its catch: the promise is rejected
fetchSingleStockDataRejects(answer) ==
  IF answer.status = "failed" THEN [state |-> "rejected", value |-> <<>>]
  ELSE [state |-> "fulfilled",
        value |-> [k \in 1..Len(answer.quotes) |->
                    [date |-> isoDate(answer.quotes[k].timestamp),
                     close |-> IF answer.quotes[k].price # Null
                               THEN toFixed4(answer.quotes[k].price) ELSE Null]]]

\* fetchSingleStockData: the promise it returns, settled; a failed request is
\* caught and gives []
fetchSingleStockData(answer) ==
  IF answer.status = "failed" THEN [state |-> "fulfilled", value |-> <<>>]
  ELSE [state |-> "fulfilled",
        value |-> [k \in 1..Len(answer.quotes) |->
                    [date |-> isoDate(answer.quotes[k].timestamp),
                     close |-> IF answer.quotes[k].price # Null
                               THEN toFixed4(answer.quotes[k].price) ELSE Null]]]

\* Array.from(allDates).sort()
RECURSIVE sortDates(_)
sortDates(dates) ==
  IF dates = {} THEN <<>>
  ELSE LET first == CHOOSE date \in dates : \A other \in dates : date <= other
       IN  <<first>> \o sortDates(dates \ {first})

\* new Map(data.map(point => [point.date, point.close])).get(date) ?? null: the
\* close of the last point of that date, null when there is none
dataMapGet(series, date) ==
  LET K == {k \in 1..Len(series) : series[k].date = date}
  IN  IF K = {} THEN Null
      ELSE series[CHOOSE k \in K : \A other \in K : other <= k].close

\* fetchStockData, once every upstream request is settled
fetchStockData(upstream) ==
  LET promises == [i \in 1..Len(upstream) |-> fetchSingleStockData(upstream[i])]
  IN  IF \E i \in 1..Len(promises) : promises[i].state = "rejected"
      THEN <<>>
      ELSE LET results == [i \in 1..Len(promises) |-> promises[i].value]
               allDates == UNION {{results[i][k].date : k \in 1..Len(results[i])} :
                                  i \in 1..Len(results)}
               sortedDates == sortDates(allDates)
           IN  [i \in 1..Len(results) |->
                 [k \in 1..Len(sortedDates) |->
                   [date |-> sortedDates[k],
                    close |-> dataMapGet(results[i], sortedDates[k])]]]

Pending == [status |-> "pending", quotes |-> <<>>]

\* fetchStockData was called with some symbols: one upstream request each
InitFetch ==
  /\ FormIdle
  /\ ChartIdle
  /\ data = <<>>
  /\ chartData = <<>>
  /\ chartDataDict = <<>>
  /\ view = "none"
  /\ startDate = 1
  /\ endDate = MaxDay
  /\ timers = <<>>
  /\ isLoading = FALSE
  /\ error = FALSE
  /\ inflight = {}
  /\ issued = 0
  /\ appliedId = 0
  /\ symbols \in SymbolLists
  /\ answers = [i \in 1..Len(symbols) |-> Pending]
  /\ fetched = [returned |-> FALSE, value |-> <<>>]

Settle(i, answer) ==
  /\ answers[i] = Pending
  /\ answers' = [answers EXCEPT ![i] = answer]
  /\ UNCHANGED <<normVars, propVars, chartVars, pageVars, formVars, fetched>>

\* the upstream answers the request of one symbol
UpstreamAnswers ==
  \E i \in 1..Len(answers), quotes \in QuoteSeqs(MaxQuotes - CountQuotes(answers)) :
    Settle(i, [status |-> "ok", quotes |-> quotes])

\* the request of one symbol fails
UpstreamFails ==
  \E i \in 1..Len(answers) : Settle(i, [status |-> "failed", quotes |-> <<>>])

\* Promise.all is settled and fetchStockData returns
FetchReturns ==
  /\ ~fetched.returned
  /\ \A i \in 1..Len(answers) : answers[i] # Pending
  /\ fetched' = [returned |-> TRUE, value |-> fetchStockData(answers)]
  /\ UNCHANGED <<normVars, propVars, chartVars, pageVars, formVars, answers>>

NextFetch == UpstreamAnswers \/ UpstreamFails \/ FetchReturns

SpecFetch == InitFetch /\ [][NextFetch]_vars

\* ------------------------------------------- StockForm: selectedTickers
\* Home and StockForm are mounted: the effect of StockForm has called
\* fetchTickerDetails for the first symbols
InitForm ==
  /\ ChartIdle
  /\ PageIdle
  /\ data = <<>>
  /\ chartData = <<>>
  /\ chartDataDict = <<>>
  /\ view = "none"
  /\ startDate = 1
  /\ endDate = MaxDay
  /\ symbols = <<ExchangeRate>>
  /\ selectedTickers = <<>>
  /\ detailRequests = <<symbols>>

\* onSymbolsChange(newSymbols): Home sets symbols, StockForm is rendered with
\* them and its effect calls fetchTickerDetails again
onSymbolsChange(newSymbols) ==
  /\ Len(detailRequests) < MaxDetails
  /\ symbols' = newSymbols
  /\ detailRequests' = Append(detailRequests, newSymbols)
  /\ UNCHANGED <<normVars, fetcherVars, chartVars, pageVars, startDate, endDate, view>>

\* StockForm.handleTickerSelect(ticker, name)
FormTickerSelect ==
  /\ Len(selectedTickers) < MaxTickers
  /\ Len(symbols) < MaxTickers
  /\ \E ticker \in SymbolNames :
       /\ selectedTickers' = Append(selectedTickers, ticker)
       /\ onSymbolsChange(Append(symbols, ticker))

\* StockForm.handleRemoveSymbol(index), index of a ticker it shows
FormRemoveSymbol ==
  \E index \in 1..Len(selectedTickers) :
    LET newSelectedTickers == removeAt(selectedTickers, index)
    IN  /\ selectedTickers' = newSelectedTickers
        /\ onSymbolsChange(newSelectedTickers)

\* fetchTickerDetails after its awaits: setSelectedTickers with the symbols of
\* the render that called it
DetailsArrive ==
  \E k \in 1..Len(detailRequests) :
    /\ selectedTickers' = detailRequests[k]
    /\ detailRequests' = removeAt(detailRequests, k)
    /\ UNCHANGED <<normVars, fetcherVars, propVars, chartVars, pageVars>>

NextForm == FormTickerSelect \/ FormRemoveSymbol \/ DetailsArrive

SpecForm == InitForm /\ [][NextForm]_vars

\* ---------------------------------------------------------------- claims
\* the raw points of a series that lie in the window and have a price
PresentInWindow(series) ==
  {j \in 1..Len(series) :
     /\ series[j].close # Null
     /\ startDate <= series[j].date
     /\ series[j].date <= endDate}

FirstIn(I) == CHOOSE j \in I : \A m \in I : j <= m

Outputs == {chartData, chartDataDict}

PlottedAt(ds, date) == {k \in 1..Len(ds.data) : ds.data[k].x = getTime(date)}

\* C1: every plotted point has a timestamp t with start <= t <= end, and a raw
\* point dated before start or after end is plotted nowhere.
C1_PointsInsideWindow ==
  \A out \in Outputs : \A i \in 1..Len(out) :
    /\ \A k \in 1..Len(out[i].data) :
         /\ getTime(startDate) <= out[i].data[k].x
         /\ out[i].data[k].x <= getTime(endDate)
    /\ \A j \in 1..Len(data[i]) :
         (data[i][j].date < startDate \/ data[i][j].date > endDate)
           => PlottedAt(out[i], data[i][j].date) = {}

C1_Witness ==
  \E i \in 1..Len(chartData) :
    /\ Len(chartData[i].data) > 0
    /\ \E j \in 1..Len(data[i]) :
         /\ data[i][j].close # Null
         /\ (data[i][j].date < startDate \/ data[i][j].date > endDate)

\* C2: in a series that is not the exchange rate and whose first in-window
\* present price b is not zero, every in-window present price p is plotted with
\* the value (p - b) / b * 100.
C2_PercentOfFirstPresent ==
  \A i \in 1..Len(chartData) :
    LET I == PresentInWindow(data[i])
    IN  (symbolAt(symbols, i) # ExchangeRate /\ I # {}) =>
          LET b == data[i][FirstIn(I)].close.n
          IN  b # 0 =>
                \A j \in I :
                  LET p == data[i][j].close.n
                      K == PlottedAt(chartData[i], data[i][j].date)
                  IN  /\ Cardinality(K) = 1
                      /\ \A k \in K :
                           LET y == chartData[i].data[k].y
                           IN  /\ IsFinite(y)
                               /\ y.n * b = (p - b) * 100 * y.d

C2_Witness ==
  \E i \in 1..Len(chartData) :
    /\ symbolAt(symbols, i) # ExchangeRate
    /\ Len(chartData[i].data) >= 2
    /\ chartData[i].data[1].y = Num(0)
    /\ IsFinite(chartData[i].data[2].y)
    /\ chartData[i].data[2].y # Num(0)

\* C3: in a series that is not the exchange rate and whose first in-window price
\* is zero or absent nothing is plotted, and no plotted value is NaN or infinite.
C3_NoValueWithoutBaseline ==
  /\ \A i \in 1..Len(chartData) :
       LET I == PresentInWindow(data[i])
       IN  (/\ symbolAt(symbols, i) # ExchangeRate
            /\ (I = {} \/ data[i][FirstIn(I)].close = Num(0)))
             => \A k \in 1..Len(chartData[i].data) : chartData[i].data[k].y = Null
  /\ \A out \in Outputs : \A i \in 1..Len(out) : \A k \in 1..Len(out[i].data) :
       out[i].data[k].y = Null \/ IsFinite(out[i].data[k].y)

\* C4: every in-window present point of the exchange-rate series is plotted with
\* its raw price, whatever the first price is; that series is on the raw-value
\* axis and every other series on the percent-change axis.
C4_PassthroughRaw ==
  \A i \in 1..Len(chartData) :
    IF symbolAt(symbols, i) = ExchangeRate
    THEN /\ chartData[i].yAxisID = "y-exchange"
         /\ \A j \in PresentInWindow(data[i]) :
              LET K == PlottedAt(chartData[i], data[i][j].date)
              IN  /\ Cardinality(K) = 1
                  /\ \A k \in K : chartData[i].data[k].y = data[i][j].close
    ELSE chartData[i].yAxisID = "y-percent"

C4_Witness ==
  \E i, m \in 1..Len(chartData) :
    /\ symbolAt(symbols, i) = ExchangeRate
    /\ Len(chartData[i].data) >= 2
    /\ chartData[i].data[1].y = Num(0)
    /\ chartData[i].data[2].y # Num(0)
    /\ symbolAt(symbols, m) # ExchangeRate

\* C5: the plotted points of a series are exactly its raw points that lie in the
\* window and have a price: no point is plotted for an absent price, and none
\* carries an absent value.
C5_ExactlyPresentInWindow ==
  \A out \in Outputs : \A i \in 1..Len(out) :
    LET I == PresentInWindow(data[i])
    IN  /\ Len(out[i].data) = Cardinality(I)
        /\ \A j \in I : PlottedAt(out[i], data[i][j].date) # {}
        /\ \A k \in 1..Len(out[i].data) : out[i].data[k].originalY # Null

\* C8: when no dataset is plotted, or every plotted series is empty after the
\* window/price filter, the component shows the no-data message and no canvas.
C8_EmptyShowsMessage ==
  (\A i \in 1..Len(chartData) : Len(chartData[i].data) = 0) => view = "message"

\* C9: when the number of series differs from the number of symbols no dataset
\* is produced, and no dataset ever has a missing label.
C9_MismatchYieldsNothing ==
  /\ Len(data) # Len(symbols) => Len(chartData) = 0
  /\ \A i \in 1..Len(chartData) : chartData[i].label # Undefined

\* C7: while StockChart is mounted its chart instance exists and is the only one
\* created in that mount, whatever props and state changes happen.
C7_OneInstancePerMount == view # "none" => (view = "canvas" /\ created = 1)

C7_Witness == view = "canvas" /\ updated /\ created = 1 /\ Len(stockData) # Len(symbols)

\* C10: the resize listener and the media-query listener are each registered
\* once while StockChart is mounted and not at all while it is not.
C10_ListenersMatchMount ==
  LET n == IF view = "none" THEN 0 ELSE 1
  IN  resizeListeners = n /\ mediaListeners = n

C10_Witness == view = "none" /\ mounts >= 2 /\ resizeListeners = 0 /\ mediaListeners = 0

\* C6: the response applied to stockData is always that of the newest request:
\* a response to an older request never replaces the displayed data.
C6_OnlyNewestApplied == [][appliedId' # appliedId => appliedId' = issued']_vars

\* C11: every redraw asked of the chart instance is asked with animation
\* disabled (mode 'none'): those of the update effect and that of updateChart.
C11_RedrawsWithoutAnimation == redrawMode \in {"never", "none"}

\* C12 as stated: the displayed range [xMin, xMax] lies inside the window and
\* spans at least one day, for every window, also one shorter than a day.
C12_RangeClampedAnyWindow ==
  view = "canvas" =>
    /\ getTime(startDate) <= xMin
    /\ xMax <= getTime(endDate)
    /\ xMax - xMin >= minRange

\* C12 amended: for every window of at least one day the displayed range lies
\* inside the window and spans at least one day, after any date changes and
\* gestures.
C12_RangeClamped ==
  (view = "canvas" /\ getTime(endDate) - getTime(startDate) >= minRange) =>
    /\ getTime(startDate) <= xMin
    /\ xMax <= getTime(endDate)
    /\ xMax - xMin >= minRange

C12_Witness ==
  /\ view = "canvas"
  /\ getTime(startDate) < xMin
  /\ xMax < getTime(endDate)
  /\ xMax - xMin = minRange

\* C14: a re-render of the mounted chart with the same window (new series, new
\* symbols, theme flip, tooltip toggle) leaves the displayed range as it was.
C14_UpdateKeepsRange ==
  [][(/\ view = "canvas"
      /\ view' = "canvas"
      /\ <<startDate, endDate>>' = <<startDate, endDate>>
      /\ <<stockData, symbols, isDarkMode, showTooltip>>' #
           <<stockData, symbols, isDarkMode, showTooltip>>)
       => <<xMin, xMax>>' = <<xMin, xMax>>]_vars

\* the dates of the quotes of an upstream answer
AnswerDates(answer) == {isoDate(answer.quotes[k].timestamp) : k \in 1..Len(answer.quotes)}

\* the last quote of that date in an upstream answer
LastQuote(answer, date) ==
  LET K == {k \in 1..Len(answer.quotes) : isoDate(answer.quotes[k].timestamp) = date}
  IN  answer.quotes[CHOOSE k \in K : \A other \in K : other <= k]

\* C13: fetchStockData returns one series per symbol, in the order of the
\* symbols, whichever upstream requests fail: the series of a failed symbol has
\* no price, and the series of any other symbol has, for each date of its own
\* upstream answer, one point with that answer's price (to four decimals) and
\* no price at any other date.
C13_OneSeriesPerSymbol ==
  fetched.returned =>
    /\ Len(fetched.value) = Len(symbols)
    /\ \A i \in 1..Len(fetched.value) :
         LET series == fetched.value[i]
             own == AnswerDates(answers[i])
         IN  /\ answers[i].status = "failed" =>
                  \A k \in 1..Len(series) : series[k].close = Null
             /\ \A date \in own :
                  LET K == {k \in 1..Len(series) : series[k].date = date}
                      price == LastQuote(answers[i], date).price
                  IN  /\ Cardinality(K) = 1
                      /\ \A k \in K :
                           IF price = Null THEN series[k].close = Null
                           ELSE /\ IsFinite(series[k].close)
                                /\ 20000 * Abs(series[k].close.n * price.d -
                                                 price.n * series[k].close.d)
                                     <= series[k].close.d * price.d
                                /\ 10000 % series[k].close.d = 0
             /\ \A k \in 1..Len(series) :
                  series[k].date \notin own => series[k].close = Null

C13_Witness ==
  /\ fetched.returned
  /\ \E i, j \in 1..Len(answers) :
       /\ answers[i].status = "failed"
       /\ Len(fetched.value[i]) > 0
       /\ \E k \in 1..Len(fetched.value[j]) : fetched.value[j][k].close = Num(0)
       /\ \E k \in 1..Len(fetched.value[j]) :
            fetched.value[j][k].close \notin {Null, Num(0)}

\* C15: whenever Home renders the chart, stockData has one series per symbol
\* and its i-th series is the data fetched for the i-th symbol.
C15_SeriesMatchSymbols ==
  homeShowsChart(stockData, symbols) =>
    /\ Len(stockData) = Len(symbols)
    /\ \A i \in 1..Len(stockData) : stockData[i].for = symbols[i]

\* C16: isLoading is true exactly while some price fetch is in flight.
C16_LoadingWhileInFlight == isLoading <=> inflight # {}

\* C17: at most one debounce timeout is pending; a change of symbols or dates
\* leaves exactly the timeout set for the new inputs; a fetch is issued only by
\* a timeout that fires, for the symbols and dates current then, which are a
\* non-empty symbol list and two set dates.
C17_Debounced ==
  [][/\ Len(timers') <= 1
     /\ <<symbols, startDate, endDate>>' # <<symbols, startDate, endDate>> =>
          timers' = <<closure(symbols', startDate', endDate')>>
     /\ issued' # issued =>
          /\ Len(timers') < Len(timers)
          /\ inflight' = inflight \cup {[id |-> issued', symbols |-> symbols,
                                         startDate |-> startDate, endDate |-> endDate]}
          /\ Len(symbols) > 0
          /\ startDate # 0
          /\ endDate # 0]_vars

C17_Witness ==
  /\ issued = MaxRequests
  /\ Len(timers) = 1
  /\ \E r \in inflight : r.id = 1 /\ r.symbols # symbols
  /\ \E r \in inflight : r.id = 2 /\ r.symbols # symbols

\* C18: once no ticker-detail request is outstanding, StockForm shows the
\* tickers of the symbols list in the same order (so that removing the ticker
\* at an index removes exactly that symbol).
C18_TickersAreSymbols == Len(detailRequests) = 0 => selectedTickers = symbols

====
